---- MODULE Spec2Model ----
(***************************************************************************)
(* Model of the two test-data generators of the repository:                *)
(*   generate_csv_test_data.py   three related CSV snapshots               *)
(*   generate_test_kafka_data.py the Kafka producer loop of main           *)
(*                                                                         *)
(* Prices are counted in cents (5.0 is 500), scaling factors in thousandths*)
(* (0.8 is 800), dates are the digits of the ISO date (2024-06-28 is       *)
(* 20240628, which orders as the ISO strings do).  A snapshot is a bag of  *)
(* rows: random.shuffle only reorders, and no property depends on order.   *)
(***************************************************************************)
EXTENDS Integers, Sequences, FiniteSets, Bags, TLC

\* ------------------------------------------------------------------ bounds
\* largest base record count whose samples are all enumerated
MaxRecords == 10
\* largest base record count of the runs that vary prices or categories
MaxDataRecords == 5
\* largest base record count of the runs that vary dates
MaxDateRecords == 3
\* populations up to this size have every k-subset drawn by random.sample
MaxEnumerated == 14
\* number of samples drawn from a population too large to enumerate
MaxWindows == 20
\* largest MESSAGE_COUNT and BATCH_SIZE of the producer runs
MaxMessages == 6
MaxBatch == 4

VARIABLES
  rnd,                    \* the outcomes the random source is sampled at
  RECORDS,
  pc,
  file1_data, file2_data, file3_data,
  ids_to_keep_modify, ids_to_keep_modify_f3,
  deleted_count, changed_price_count, changed_category_count,
  new_records_count_f2,
  deleted_count_f3, changed_price_count_f3, new_records_count_f3,
  csv1, csv2, csv3,       \* the three written files
  kpc, message_count, batch_size,
  i, j, batch_end, sent, flushed, sent_count, progress

csv_vars == <<rnd, RECORDS, pc, file1_data, file2_data, file3_data,
              ids_to_keep_modify, ids_to_keep_modify_f3,
              deleted_count, changed_price_count, changed_category_count,
              new_records_count_f2,
              deleted_count_f3, changed_price_count_f3, new_records_count_f3,
              csv1, csv2, csv3>>

kafka_vars == <<kpc, message_count, batch_size,
                i, j, batch_end, sent, flushed, sent_count, progress>>

vars == <<csv_vars, kafka_vars>>

\* ------------------------------------------------------------------ text
DigitChar == <<"0", "1", "2", "3", "4", "5", "6", "7", "8", "9">>

\* str(n) of an int n >= 0, one character per element
RECURSIVE Digits(_)
Digits(n) ==
  IF n < 10 THEN <<DigitChar[n + 1]>>
  ELSE Append(Digits(n \div 10), DigitChar[(n % 10) + 1])

\* the format spec 0<width>: zeros on the left up to width, never truncating
RECURSIVE ZeroPad(_, _)
ZeroPad(s, width) ==
  IF Len(s) >= width THEN s ELSE ZeroPad(<<"0">> \o s, width)

\* f"key_{n:05}"
KeyId(n) == <<"key_">> \o ZeroPad(Digits(n), 5)

\* str(x) of the float x = cents/100 as csv.DictWriter writes it: the shortest
\* text that reads back as x, which keeps at least one fraction digit and no
\* trailing zero beyond it
FloatStr(cents) ==
  LET whole == Digits(cents \div 100)
      tens  == (cents % 100) \div 10
      ones  == cents % 10
  IN  IF ones = 0
        THEN whole \o <<".", DigitChar[tens + 1]>>
        ELSE whole \o <<".", DigitChar[tens + 1], DigitChar[ones + 1]>>

\* number of characters after the decimal point
RECURSIVE FractionDigits(_)
FractionDigits(s) ==
  IF s = <<>> THEN 0
  ELSE IF s[Len(s)] = "." THEN 0
  ELSE 1 + FractionDigits(SubSeq(s, 1, Len(s) - 1))

\* ------------------------------------------------------------------ random
\* random.randint(a, b), at the points rnd keeps: the low end, or both ends
Points(mode, a, b) == IF mode = "lo" THEN {a} ELSE {a, b}

\* random.uniform(a, b), at the points rnd keeps: the low end, or both ends
Uniform(mode, a, b) == IF mode = "lo" THEN {a} ELSE {a, b}

\* random.choice(seq), among the first n elements
Choice(seq, n) == {seq[k] : k \in 1..(IF n < Len(seq) THEN n ELSE Len(seq))}

\* random.random() < p, for 0 < p < 1: the outcomes rnd keeps for the price
\* draw and for the category draw
PriceCoin == rnd.price_coins
CategoryCoin == rnd.category_coins

\* round(x, 2) of x = n thousandths of a cent, n >= 0: the nearest cent; on an
\* exact half the float product may fall on either side
Round2(n) ==
  LET q == n \div 1000
      r == n % 1000
  IN  IF r < 500 THEN {q} ELSE IF r > 500 THEN {q + 1} ELSE {q, q + 1}

\* int(n * 0.t) for the one-digit ratios 0.1 .. 0.9 of the script: the float
\* 0.t times n is within 1e-9 of n*t/10, so truncation gives the floor
IntRatio(n, tenths) == (n * tenths) \div 10

SUFFIXES == <<"Alpha", "Beta", "Gamma", "Delta", "Epsilon">>
CATEGORIES == <<"Electronics", "Books", "Clothing", "Home Goods", "Toys">>

generate_product_name(n) ==
  {<<"Product_">> \o Digits(n) \o <<"_", s>> : s \in Choice(SUFFIXES, rnd.suffixes)}

generate_category == Choice(CATEGORIES, rnd.categories)

\* generate_price drawing from 0.0 upwards
generate_price_from_zero ==
  UNION {Round2(x) : x \in Uniform(rnd.prices, 0, 50000000)}

\* round(random.uniform(5.0, 500.0), 2); the draw is in thousandths of a cent
generate_price ==
  UNION {Round2(x) : x \in Uniform(rnd.prices, 500000, 50000000)}

IsoDate(year, month, day) == year * 10000 + month * 100 + day

generate_date(base_year, month_lo, month_hi, day_lo, day_hi) ==
  { LET d == IF month = 2 /\ day > 28 THEN 28
             ELSE IF month \in {4, 6, 9, 11} /\ day > 30 THEN 30
             ELSE day
    IN  IsoDate(base_year + off, month, d) :
      off \in Points(rnd.years, 0, 1),
      month \in Points(rnd.months, month_lo, month_hi),
      day \in Points(rnd.days, day_lo, day_hi) }

\* ------------------------------------------------------------------ rows
field_names == <<"id", "product_name", "category", "price", "last_update_date">>

NewRow(n, base_year, month_lo, month_hi) ==
  { [id |-> KeyId(n), product_name |-> nm, category |-> c, price |-> p,
     last_update_date |-> d] :
      nm \in generate_product_name(n), c \in generate_category,
      p \in generate_price,
      d \in generate_date(base_year, month_lo, month_hi, 1, 28) }

\* next(row for row in data if row['id'] == base_id)
Lookup(data, base_id) == CHOOSE row \in BagToSet(data) : row.id = base_id

Ids(data) == {row.id : row \in BagToSet(data)}

\* list(ids) of a set of ids: its elements in one order, here that of their
\* numbers (the script forms no id numbered 2 * RECORDS or above)
ListOf(ids) ==
  SelectSeq([n \in 1..(2 * RECORDS) |-> KeyId(n - 1)], LAMBDA id : id \in ids)

\* random.sample(list(population), k): k distinct elements.  A population of
\* at most MaxEnumerated elements yields every k-subset; a larger one yields
\* MaxWindows runs of k consecutive elements of the list, taken cyclically.
Sample(population, k) ==
  LET n == Cardinality(population) IN
  IF n <= MaxEnumerated
    THEN {S \in SUBSET population : Cardinality(S) = k}
    ELSE LET order == ListOf(population)
         IN  { {order[((((w * n) \div MaxWindows) + t) % n) + 1] : t \in 0..(k - 1)} :
                 w \in 0..(MaxWindows - 1) }

\* ------------------------------------------------------------------ file 1
\* the rows appended for lo <= i <= hi, every combination of the random
\* fields; the range is halved to keep the evaluation shallow
RECURSIVE File1Rows(_, _)
File1Rows(lo, hi) ==
  IF lo > hi THEN {EmptyBag}
  ELSE IF lo = hi THEN {SetToBag({row}) : row \in NewRow(lo, 2023, 1, 12)}
  ELSE LET mid == (lo + hi) \div 2
       IN  {a (+) b : a \in File1Rows(lo, mid), b \in File1Rows(mid + 1, hi)}

\* ------------------------------------------------------------------ file 2
\* round() in place of int() for the two counts of file 2
KeepCountF2_rounded == ((RECORDS * 8) + 5) \div 10
NewCountF2_rounded == ((RECORDS * 2) + 5) \div 10
\* the new ids of file 2 numbered from 0
NewIdNumF2_from_zero(k) == k

KeepCountF2 == IntRatio(RECORDS, 8)
NewCountF2 == IntRatio(RECORDS, 2)
NewIdNumF2(k) == RECORDS + k

\* one pass of the loop over ids_to_keep_modify: the new row, and whether the
\* two counters were incremented
ModifyF2(original_row) ==
  { [row |-> [original_row EXCEPT
                !.last_update_date = d,
                !.price = IF cp THEN np ELSE @,
                !.category = IF cc /\ nc # original_row.category THEN nc ELSE @],
     price_changed |-> cp /\ np # original_row.price,
     category_changed |-> cc /\ nc # original_row.category] :
      d \in generate_date(2024, 1, 6, 1, 28),
      cp \in PriceCoin,
      np \in UNION {Round2(original_row.price * f) : f \in Uniform(rnd.factors, 800, 1200)},
      cc \in CategoryCoin,
      nc \in generate_category }

\* the loop over keep[lo..hi]: the rows appended and the two counters
RECURSIVE ModifiedF2(_, _, _)
ModifiedF2(keep, lo, hi) ==
  IF lo > hi THEN {[rows |-> EmptyBag, prices |-> 0, categories |-> 0]}
  ELSE IF lo = hi
    THEN { [rows |-> SetToBag({m.row}),
            prices |-> IF m.price_changed THEN 1 ELSE 0,
            categories |-> IF m.category_changed THEN 1 ELSE 0] :
             m \in ModifyF2(Lookup(file1_data, keep[lo])) }
  ELSE LET mid == (lo + hi) \div 2
       IN  { [rows |-> a.rows (+) b.rows,
              prices |-> a.prices + b.prices,
              categories |-> a.categories + b.categories] :
               a \in ModifiedF2(keep, lo, mid), b \in ModifiedF2(keep, mid + 1, hi) }

\* the rows appended for lo <= i <= hi of the loop of new records
RECURSIVE NewRowsF2(_, _)
NewRowsF2(lo, hi) ==
  IF lo > hi THEN {EmptyBag}
  ELSE IF lo = hi THEN {SetToBag({row}) : row \in NewRow(NewIdNumF2(lo), 2024, 7, 12)}
  ELSE LET mid == (lo + hi) \div 2
       IN  {a (+) b : a \in NewRowsF2(lo, mid), b \in NewRowsF2(mid + 1, hi)}

\* ------------------------------------------------------------------ file 3
\* the new ids of file 3 numbered from RECORDS, as those of file 2 are
NewIdNumF3_as_f2(k) == RECORDS + k
\* the new ids of file 3 numbered from 0
NewIdNumF3_from_zero(k) == k

\* the loop of file 3 resampling the category as the loop of file 2 does
ModifyF3_with_category(original_row) ==
  { [row |-> [original_row EXCEPT
                !.last_update_date = d,
                !.price = IF cp /\ np # original_row.price THEN np ELSE @,
                !.category = IF cc /\ nc # original_row.category THEN nc ELSE @],
     price_changed |-> cp /\ np # original_row.price] :
      d \in generate_date(2025, 1, 3, 1, 28),
      cp \in PriceCoin,
      np \in UNION {Round2(original_row.price * f) : f \in Uniform(rnd.factors, 900, 1100)},
      cc \in CategoryCoin,
      nc \in generate_category }

KeepCountF3 == IntRatio(Cardinality(Ids(file2_data)), 9)
NewCountF3 == IntRatio(RECORDS, 1)
NewIdNumF3(k) == RECORDS + IntRatio(RECORDS, 2) + k

ModifyF3(original_row) ==
  { [row |-> [original_row EXCEPT
                !.last_update_date = d,
                !.price = IF cp /\ np # original_row.price THEN np ELSE @],
     price_changed |-> cp /\ np # original_row.price] :
      d \in generate_date(2025, 1, 3, 1, 28),
      cp \in PriceCoin,
      np \in UNION {Round2(original_row.price * f) : f \in Uniform(rnd.factors, 900, 1100)} }

RECURSIVE ModifiedF3(_, _, _)
ModifiedF3(keep, lo, hi) ==
  IF lo > hi THEN {[rows |-> EmptyBag, prices |-> 0]}
  ELSE IF lo = hi
    THEN { [rows |-> SetToBag({m.row}),
            prices |-> IF m.price_changed THEN 1 ELSE 0] :
             m \in ModifyF3(Lookup(file2_data, keep[lo])) }
  ELSE LET mid == (lo + hi) \div 2
       IN  { [rows |-> a.rows (+) b.rows, prices |-> a.prices + b.prices] :
               a \in ModifiedF3(keep, lo, mid), b \in ModifiedF3(keep, mid + 1, hi) }

RECURSIVE NewRowsF3(_, _)
NewRowsF3(lo, hi) ==
  IF lo > hi THEN {EmptyBag}
  ELSE IF lo = hi THEN {SetToBag({row}) : row \in NewRow(NewIdNumF3(lo), 2025, 2, 4)}
  ELSE LET mid == (lo + hi) \div 2
       IN  {a (+) b : a \in NewRowsF3(lo, mid), b \in NewRowsF3(mid + 1, hi)}

\* ------------------------------------------------------------------ writer
\* csv.DictWriter.writerow: every field through str()
CsvRow(row) == [row EXCEPT !.price = FloatStr(@)]

\* writeheader() then writerows(data)
WriteCsv(data) == [header |-> field_names, rows |-> BagOfAll(CsvRow, data)]

NoFile == [header |-> <<>>, rows |-> EmptyBag]

\* ------------------------------------------------------------------ script
\* generate_csv_test_data.py, top to bottom
GenerateFile1 ==
  /\ pc = "file1"
  /\ \E rows \in File1Rows(0, RECORDS - 1) : file1_data' = rows
  /\ pc' = "write1"
  /\ UNCHANGED <<rnd, RECORDS, file2_data, file3_data,
                 ids_to_keep_modify, ids_to_keep_modify_f3,
                 deleted_count, changed_price_count, changed_category_count,
                 new_records_count_f2,
                 deleted_count_f3, changed_price_count_f3, new_records_count_f3,
                 csv1, csv2, csv3, kafka_vars>>

WriteFile1 ==
  /\ pc = "write1"
  /\ csv1' = WriteCsv(file1_data)
  /\ pc' = "sample2"
  /\ UNCHANGED <<rnd, RECORDS, file1_data, file2_data, file3_data,
                 ids_to_keep_modify, ids_to_keep_modify_f3,
                 deleted_count, changed_price_count, changed_category_count,
                 new_records_count_f2,
                 deleted_count_f3, changed_price_count_f3, new_records_count_f3,
                 csv2, csv3, kafka_vars>>

SampleFile2 ==
  /\ pc = "sample2"
  /\ \E keep \in Sample(Ids(file1_data), KeepCountF2) : ids_to_keep_modify' = keep
  /\ deleted_count' = 0
  /\ changed_price_count' = 0
  /\ changed_category_count' = 0
  /\ pc' = "modify2"
  /\ UNCHANGED <<rnd, RECORDS, file1_data, file2_data, file3_data,
                 ids_to_keep_modify_f3, new_records_count_f2,
                 deleted_count_f3, changed_price_count_f3, new_records_count_f3,
                 csv1, csv2, csv3, kafka_vars>>

ModifyFile2 ==
  /\ pc = "modify2"
  /\ \E m \in ModifiedF2(ListOf(ids_to_keep_modify), 1, Len(ListOf(ids_to_keep_modify))) :
       /\ file2_data' = m.rows
       /\ changed_price_count' = m.prices
       /\ changed_category_count' = m.categories
  /\ deleted_count' = Cardinality(Ids(file1_data)) - Cardinality(ids_to_keep_modify)
  /\ pc' = "insert2"
  /\ UNCHANGED <<rnd, RECORDS, file1_data, file3_data,
                 ids_to_keep_modify, ids_to_keep_modify_f3, new_records_count_f2,
                 deleted_count_f3, changed_price_count_f3, new_records_count_f3,
                 csv1, csv2, csv3, kafka_vars>>

\* the new records, then random.shuffle(file2_data)
InsertFile2 ==
  /\ pc = "insert2"
  /\ \E rows \in NewRowsF2(0, NewCountF2 - 1) : file2_data' = file2_data (+) rows
  /\ new_records_count_f2' = NewCountF2
  /\ pc' = "write2"
  /\ UNCHANGED <<rnd, RECORDS, file1_data, file3_data,
                 ids_to_keep_modify, ids_to_keep_modify_f3,
                 deleted_count, changed_price_count, changed_category_count,
                 deleted_count_f3, changed_price_count_f3, new_records_count_f3,
                 csv1, csv2, csv3, kafka_vars>>

WriteFile2 ==
  /\ pc = "write2"
  /\ csv2' = WriteCsv(file2_data)
  /\ pc' = "sample3"
  /\ UNCHANGED <<rnd, RECORDS, file1_data, file2_data, file3_data,
                 ids_to_keep_modify, ids_to_keep_modify_f3,
                 deleted_count, changed_price_count, changed_category_count,
                 new_records_count_f2,
                 deleted_count_f3, changed_price_count_f3, new_records_count_f3,
                 csv1, csv3, kafka_vars>>

SampleFile3 ==
  /\ pc = "sample3"
  /\ \E keep \in Sample(Ids(file2_data), KeepCountF3) : ids_to_keep_modify_f3' = keep
  /\ deleted_count_f3' = 0
  /\ changed_price_count_f3' = 0
  /\ pc' = "modify3"
  /\ UNCHANGED <<rnd, RECORDS, file1_data, file2_data, file3_data,
                 ids_to_keep_modify,
                 deleted_count, changed_price_count, changed_category_count,
                 new_records_count_f2, new_records_count_f3,
                 csv1, csv2, csv3, kafka_vars>>

ModifyFile3 ==
  /\ pc = "modify3"
  /\ \E m \in ModifiedF3(ListOf(ids_to_keep_modify_f3), 1, Len(ListOf(ids_to_keep_modify_f3))) :
       /\ file3_data' = m.rows
       /\ changed_price_count_f3' = m.prices
  /\ deleted_count_f3' = Cardinality(Ids(file2_data)) - Cardinality(ids_to_keep_modify_f3)
  /\ pc' = "insert3"
  /\ UNCHANGED <<rnd, RECORDS, file1_data, file2_data,
                 ids_to_keep_modify, ids_to_keep_modify_f3,
                 deleted_count, changed_price_count, changed_category_count,
                 new_records_count_f2, new_records_count_f3,
                 csv1, csv2, csv3, kafka_vars>>

\* the new records, then random.shuffle(file3_data)
InsertFile3 ==
  /\ pc = "insert3"
  /\ \E rows \in NewRowsF3(0, NewCountF3 - 1) : file3_data' = file3_data (+) rows
  /\ new_records_count_f3' = NewCountF3
  /\ pc' = "write3"
  /\ UNCHANGED <<rnd, RECORDS, file1_data, file2_data,
                 ids_to_keep_modify, ids_to_keep_modify_f3,
                 deleted_count, changed_price_count, changed_category_count,
                 new_records_count_f2,
                 deleted_count_f3, changed_price_count_f3,
                 csv1, csv2, csv3, kafka_vars>>

WriteFile3 ==
  /\ pc = "write3"
  /\ csv3' = WriteCsv(file3_data)
  /\ pc' = "done"
  /\ UNCHANGED <<rnd, RECORDS, file1_data, file2_data, file3_data,
                 ids_to_keep_modify, ids_to_keep_modify_f3,
                 deleted_count, changed_price_count, changed_category_count,
                 new_records_count_f2,
                 deleted_count_f3, changed_price_count_f3, new_records_count_f3,
                 csv1, csv2, kafka_vars>>

CsvNext ==
  \/ GenerateFile1 \/ WriteFile1
  \/ SampleFile2 \/ ModifyFile2 \/ InsertFile2 \/ WriteFile2
  \/ SampleFile3 \/ ModifyFile3 \/ InsertFile3 \/ WriteFile3

\* the producer script is not running
KafkaOff ==
  /\ kpc = "off"
  /\ message_count = 0 /\ batch_size = 0
  /\ i = 0 /\ j = 0 /\ batch_end = 0
  /\ sent = <<>> /\ flushed = 0 /\ sent_count = 0 /\ progress = <<>>

\* the state at line 45 of the script, for a base count and a sampling of the
\* random source
CsvInit(counts, sampling) ==
  /\ rnd = sampling
  /\ RECORDS \in counts
  /\ pc = "file1"
  /\ file1_data = EmptyBag /\ file2_data = EmptyBag /\ file3_data = EmptyBag
  /\ ids_to_keep_modify = {} /\ ids_to_keep_modify_f3 = {}
  /\ deleted_count = 0 /\ changed_price_count = 0 /\ changed_category_count = 0
  /\ new_records_count_f2 = 0
  /\ deleted_count_f3 = 0 /\ changed_price_count_f3 = 0 /\ new_records_count_f3 = 0
  /\ csv1 = NoFile /\ csv2 = NoFile /\ csv3 = NoFile
  /\ KafkaOff

\* every random field at one value, no price or category change drawn
RndFixed ==
  [suffixes |-> 1, categories |-> 1, prices |-> "lo", factors |-> "lo",
   years |-> "lo", months |-> "lo", days |-> "lo",
   price_coins |-> {FALSE}, category_coins |-> {FALSE}]

\* the year offset and the month at both ends of their ranges
RndDates == [RndFixed EXCEPT !.years = "ends", !.months = "ends"]

\* the lowest price, the scaling factor at both ends of its range
RndPrices == [RndFixed EXCEPT !.factors = "ends", !.price_coins = BOOLEAN]

\* two categories
RndCategories == [RndFixed EXCEPT !.categories = 2, !.category_coins = BOOLEAN]

InitIds == CsvInit(0..MaxRecords, RndFixed)
InitE2E == CsvInit({100}, RndFixed)
InitDates == CsvInit(1..MaxDateRecords, RndDates)
InitPrices == CsvInit(1..MaxDataRecords, RndPrices)
InitCategories == CsvInit(1..MaxDataRecords, RndCategories)

SpecIds == InitIds /\ [][CsvNext]_vars
SpecE2E == InitE2E /\ [][CsvNext]_vars
SpecDates == InitDates /\ [][CsvNext]_vars
SpecPrices == InitPrices /\ [][CsvNext]_vars
SpecCategories == InitCategories /\ [][CsvNext]_vars

\* ------------------------------------------------------------------ producer
\* generate_test_kafka_data.py: main.  The random id, timestamp and payload of
\* a message are left out; its payload length is kept.
\* f"key-{n:06d}"
KafkaKey(n) == <<"key-">> \o ZeroPad(Digits(n), 6)

\* the "data" length of generate_random_message(size_bytes)
generate_random_message(size_bytes) ==
  [data_len |-> size_bytes - 100, source |-> "test-generator", version |-> "1.0"]

generate_large_message(size_kb) == generate_random_message(size_kb * 1024)

\* what the inner loop passes to producer.send for index n
Message(n) ==
  [key |-> KafkaKey(n),
   value |-> IF n % 1000 = 0 THEN generate_large_message(64)
             ELSE generate_random_message(1024)]

Min(a, b) == IF a < b THEN a ELSE b

\* the keys passed to producer.send so far
SentKeys == {sent[k].key : k \in 1..Len(sent)}

\* KafkaProducer(...) succeeded
Connect ==
  /\ kpc = "connect"
  /\ kpc' = "outer"
  /\ sent_count' = 0
  /\ i' = 0
  /\ UNCHANGED <<csv_vars, message_count, batch_size, j, batch_end, sent, flushed,
                 progress>>

\* KafkaProducer(...) raised: main returns
ConnectFails ==
  /\ kpc = "connect"
  /\ kpc' = "returned"
  /\ UNCHANGED <<csv_vars, message_count, batch_size, i, j, batch_end, sent, flushed,
                 sent_count, progress>>

\* for i in range(0, message_count, batch_size): the next batch
BatchStart ==
  /\ kpc = "outer"
  /\ i < message_count
  /\ batch_end' = Min(i + batch_size, message_count)
  /\ j' = i
  /\ kpc' = "send"
  /\ UNCHANGED <<csv_vars, message_count, batch_size, i, sent, flushed, sent_count,
                 progress>>

\* the outer range is exhausted
LoopExit ==
  /\ kpc = "outer"
  /\ i >= message_count
  /\ kpc' = "final"
  /\ UNCHANGED <<csv_vars, message_count, batch_size, i, j, batch_end, sent, flushed,
                 sent_count, progress>>

Send ==
  /\ kpc = "send"
  /\ sent' = Append(sent, Message(j))
  /\ kpc' = "check"
  /\ UNCHANGED <<csv_vars, message_count, batch_size, i, j, batch_end, flushed,
                 sent_count, progress>>

\* producer.send raised: the except branch, then finally
SendFails ==
  /\ kpc = "send"
  /\ kpc' = "error"
  /\ UNCHANGED <<csv_vars, message_count, batch_size, i, j, batch_end, sent, flushed,
                 sent_count, progress>>

\* if j % batch_size == 0 or j == message_count - 1
FlushDue == j % batch_size = 0 \/ j = message_count - 1

Flush ==
  /\ kpc = "check"
  /\ FlushDue
  /\ flushed' = Len(sent)
  /\ kpc' = "report"
  /\ UNCHANGED <<csv_vars, message_count, batch_size, i, j, batch_end, sent,
                 sent_count, progress>>

\* sent_count = j + 1 and the progress line
Report ==
  /\ kpc = "report"
  /\ sent_count' = j + 1
  /\ progress' = Append(progress, j + 1)
  /\ kpc' = "sleep"
  /\ UNCHANGED <<csv_vars, message_count, batch_size, i, j, batch_end, sent, flushed>>

NoFlush ==
  /\ kpc = "check"
  /\ ~FlushDue
  /\ kpc' = "sleep"
  /\ UNCHANGED <<csv_vars, message_count, batch_size, i, j, batch_end, sent, flushed,
                 sent_count, progress>>

\* the delay, then the next j of range(i, batch_end)
NextMessage ==
  /\ kpc = "sleep"
  /\ j + 1 < batch_end
  /\ j' = j + 1
  /\ kpc' = "send"
  /\ UNCHANGED <<csv_vars, message_count, batch_size, i, batch_end, sent, flushed,
                 sent_count, progress>>

\* the inner range is exhausted: the next i of the outer range
BatchEnd ==
  /\ kpc = "sleep"
  /\ j + 1 >= batch_end
  /\ i' = i + batch_size
  /\ kpc' = "outer"
  /\ UNCHANGED <<csv_vars, message_count, batch_size, j, batch_end, sent, flushed,
                 sent_count, progress>>

FinalFlush ==
  /\ kpc = "final"
  /\ flushed' = Len(sent)
  /\ kpc' = "close"
  /\ UNCHANGED <<csv_vars, message_count, batch_size, i, j, batch_end, sent,
                 sent_count, progress>>

\* finally: producer.close()
Close ==
  /\ kpc \in {"close", "error"}
  /\ kpc' = "closed"
  /\ UNCHANGED <<csv_vars, message_count, batch_size, i, j, batch_end, sent, flushed,
                 sent_count, progress>>

KafkaNext ==
  \/ Connect \/ ConnectFails
  \/ BatchStart \/ LoopExit
  \/ Send \/ SendFails
  \/ Flush \/ Report \/ NoFlush
  \/ NextMessage \/ BatchEnd
  \/ FinalFlush \/ Close

\* the csv script is not running
CsvOff ==
  /\ rnd = RndFixed
  /\ RECORDS = 0
  /\ pc = "off"
  /\ file1_data = EmptyBag /\ file2_data = EmptyBag /\ file3_data = EmptyBag
  /\ ids_to_keep_modify = {} /\ ids_to_keep_modify_f3 = {}
  /\ deleted_count = 0 /\ changed_price_count = 0 /\ changed_category_count = 0
  /\ new_records_count_f2 = 0
  /\ deleted_count_f3 = 0 /\ changed_price_count_f3 = 0 /\ new_records_count_f3 = 0
  /\ csv1 = NoFile /\ csv2 = NoFile /\ csv3 = NoFile

\* main after reading MESSAGE_COUNT and BATCH_SIZE from the environment
InitKafka ==
  /\ CsvOff
  /\ message_count \in 1..MaxMessages
  /\ batch_size \in 1..MaxBatch
  /\ kpc = "connect"
  /\ i = 0 /\ j = 0 /\ batch_end = 0
  /\ sent = <<>> /\ flushed = 0 /\ sent_count = 0 /\ progress = <<>>

SpecKafka == InitKafka /\ [][KafkaNext]_vars

\* ------------------------------------------------------------------ claims
NoDuplicateIds(data) == BagCardinality(data) = Cardinality(Ids(data))

DigitValue(c) == CHOOSE d \in 0..9 : DigitChar[d + 1] = c

RECURSIVE DigitsValue(_)
DigitsValue(s) ==
  IF s = <<>> THEN 0
  ELSE 10 * DigitsValue(SubSeq(s, 1, Len(s) - 1)) + DigitValue(s[Len(s)])

\* the number an id was formatted from
KeyNum(id) == DigitsValue(Tail(id))

File2Built == pc \in {"write2", "sample3", "modify3", "insert3", "write3", "done"}
File3Built == pc \in {"write3", "done"}

AllRows == BagToSet(file1_data) \cup BagToSet(file2_data) \cup BagToSet(file3_data)

\* C1: no two records of a snapshot have the same id, in file1_data, file2_data
\* and file3_data, for every base count and every sample.
C1_UniqueIds ==
  /\ NoDuplicateIds(file1_data)
  /\ NoDuplicateIds(file2_data)
  /\ NoDuplicateIds(file3_data)

\* a finished run whose file 3 holds retained rows, rows inserted in file 2 and
\* rows inserted in file 3
C1_Witness ==
  /\ pc = "done"
  /\ \E a \in Ids(file3_data), b \in Ids(file3_data), c \in Ids(file3_data) :
       /\ a \in Ids(file1_data)
       /\ b \in Ids(file2_data) \ Ids(file1_data)
       /\ c \notin Ids(file2_data)

\* C2: snapshot 2 introduces floor(0.2 R) new ids and snapshot 3 floor(0.1 R);
\* their numbers lie above every number used before, so none of them is an id
\* of an earlier snapshot.
C2_FreshIds ==
  /\ File2Built =>
       LET new2 == Ids(file2_data) \ Ids(file1_data) IN
       /\ Cardinality(new2) = (2 * RECORDS) \div 10
       /\ \A a \in new2, b \in Ids(file1_data) : KeyNum(a) > KeyNum(b)
  /\ File3Built =>
       LET new3 == Ids(file3_data) \ Ids(file2_data) IN
       /\ Cardinality(new3) = RECORDS \div 10
       /\ new3 \cap Ids(file1_data) = {}
       /\ \A a \in new3, b \in Ids(file1_data) \cup Ids(file2_data) :
            KeyNum(a) > KeyNum(b)

\* a finished run with insertions at both snapshots and a 1 -> 2 deletion
C2_Witness ==
  /\ pc = "done"
  /\ Ids(file2_data) \ Ids(file1_data) # {}
  /\ Ids(file3_data) \ Ids(file2_data) # {}
  /\ Ids(file1_data) \ Ids(file2_data) # {}

\* C3: an id of snapshot 3 is an id of snapshot 2 or was in no earlier
\* snapshot: an id deleted from 1 to 2 never comes back in snapshot 3.
C3_NoResurrection ==
  (Ids(file3_data) \cap Ids(file1_data)) \subseteq Ids(file2_data)

\* a finished run where file 2 dropped an id and file 3 has retained and
\* inserted rows
C3_Witness ==
  /\ pc = "done"
  /\ Ids(file1_data) \ Ids(file2_data) # {}
  /\ Ids(file3_data) \cap Ids(file2_data) # {}
  /\ Ids(file3_data) \ Ids(file2_data) # {}

\* C4: the date a retained record gets in snapshot N+1 is later than every
\* date of snapshot N.
C4_LaterWindow ==
  /\ pc \in {"insert2", "write2", "sample3", "modify3", "insert3", "write3", "done"} =>
       \A r2 \in BagToSet(file2_data), r1 \in BagToSet(file1_data) :
         r2.id \in ids_to_keep_modify => r1.last_update_date < r2.last_update_date
  /\ pc \in {"insert3", "write3", "done"} =>
       \A r3 \in BagToSet(file3_data), r2 \in BagToSet(file2_data) :
         r3.id \in ids_to_keep_modify_f3 => r2.last_update_date < r3.last_update_date

\* C5: every price of every snapshot is strictly positive, also after the
\* rescaling of file 2 followed by the rescaling of file 3.
C5_PositivePrice == \A row \in AllRows : row.price > 0

\* a finished run with a row rescaled downwards in file 2 and again in file 3
C5_Witness ==
  /\ pc = "done"
  /\ \E r3 \in BagToSet(file3_data) :
       /\ r3.id \in ids_to_keep_modify /\ r3.id \in ids_to_keep_modify_f3
       /\ Lookup(file2_data, r3.id).price < Lookup(file1_data, r3.id).price
       /\ r3.price < Lookup(file2_data, r3.id).price

\* C6: every price of the three written files has exactly two fraction digits.
C6_TwoFractionDigits ==
  \A row \in BagToSet(csv1.rows) \cup BagToSet(csv2.rows) \cup BagToSet(csv3.rows) :
    FractionDigits(row.price) = 2

\* C7: the ids of snapshot N missing from snapshot N+1 number R - floor(0.8 R)
\* from 1 to 2 and |snapshot 2| - floor(0.9 |snapshot 2|) from 2 to 3, less
\* than 1 away from 0.2 R and 0.1 |snapshot 2|, and are the reported counts.
C7_DeletedCount ==
  /\ File2Built =>
       LET gone == Cardinality(Ids(file1_data) \ Ids(file2_data)) IN
       /\ gone = RECORDS - ((8 * RECORDS) \div 10)
       /\ gone = deleted_count
       /\ 10 * gone - 2 * RECORDS \in 0..9
  /\ File3Built =>
       LET size2 == BagCardinality(file2_data)
           gone == Cardinality(Ids(file2_data) \ Ids(file3_data)) IN
       /\ gone = size2 - ((9 * size2) \div 10)
       /\ gone = deleted_count_f3
       /\ 10 * gone - size2 \in 0..9

\* a finished run with deletions in both transitions, the first not a whole
\* multiple of the ratio
C7_Witness ==
  /\ pc = "done"
  /\ deleted_count > 0 /\ deleted_count_f3 > 0
  /\ 10 * deleted_count # 2 * RECORDS

\* C8: with 100 base records, snapshot 2 is 80 retained records and 20 new
\* ones, 100 in all, without a duplicate id.
C8_EndToEnd ==
  (RECORDS = 100 /\ File2Built) =>
    /\ Cardinality(Ids(file2_data) \cap Ids(file1_data)) = 80
    /\ Cardinality(Ids(file2_data) \ Ids(file1_data)) = 20
    /\ BagCardinality(file2_data) = 100
    /\ NoDuplicateIds(file2_data)

C8_Witness == RECORDS = 100 /\ pc = "write2" /\ BagCardinality(file2_data) = 100

\* C9 as stated: the step that derives snapshot 3 can change the category of a
\* retained record, as the step that derives snapshot 2 can.
C9_CategoryCanChangeInFile3 ==
  pc = "modify3" =>
    \A base_id \in ids_to_keep_modify_f3 :
      \E m \in ModifyF3(Lookup(file2_data, base_id)) :
        m.row.category # Lookup(file2_data, base_id).category

\* C9 amended: a record retained in snapshot 3 keeps the id, name and category
\* it has in snapshot 2; its date is redrawn from the window of file 3 and its
\* price is the old one or the old one scaled by a factor in [0.9, 1.1].
C9_CategoryKeptInFile3 ==
  pc \in {"insert3", "write3", "done"} =>
    \A base_id \in ids_to_keep_modify_f3 :
      LET old == Lookup(file2_data, base_id)
          new == Lookup(file3_data, base_id) IN
      /\ new.category = old.category
      /\ new.product_name = old.product_name
      /\ 1000 * new.price >= 900 * old.price - 500
      /\ 1000 * new.price <= 1100 * old.price + 500
      /\ new.last_update_date \in 20250101..20260328

\* a finished run where a record changed category in file 2 and is retained
\* in file 3
C9_Witness ==
  /\ pc = "done"
  /\ \E base_id \in ids_to_keep_modify_f3 \cap ids_to_keep_modify :
       Lookup(file2_data, base_id).category # Lookup(file1_data, base_id).category

\* C10: when flush and the progress report run inside the loop, every message
\* of the current batch has been passed to producer.send and the count about
\* to be reported is the number of messages sent.
C10_FlushOnBatchCompletion ==
  kpc = "report" =>
    /\ \A n \in i..(batch_end - 1) : KafkaKey(n) \in SentKeys
    /\ j + 1 = Len(sent)

====
